---- MODULE Spec2Model ----
(***************************************************************************)
(* Model of src/server.py: the ChangeTracker engine (initialize, save,     *)
(* list, show, restore, cleanup, status) over one project root.            *)
(*                                                                         *)
(* The project tree is a map from relative paths to file contents; the     *)
(* history store is the four kinds of file the engine writes               *)
(* (initial_backup.zip, file_hashes.json, metadata.json, states/*.zip).    *)
(* Every operation runs to completion (single-threaded, synchronous), so   *)
(* each is one action. File edits by the user are environment actions.     *)
(* Spec and SpecAll are the fault-free sequential engine; SpecFaults adds  *)
(* the storage I/O faults, SpecFidelity records the tree at each save, and *)
(* SpecRace splits save into its reads and writes for two callers.         *)
(* The initialized_at timestamp is not modelled.                           *)
(* The tool wrappers (lines 418-594) only bind the tracker to the given    *)
(* working directory and serialise the result; one project root is        *)
(* modelled.                                                               *)
(***************************************************************************)
EXTENDS Integers, Sequences, FiniteSets, TLC

(* ------------------------------ bounds --------------------------------- *)
\* save is not taken once the state list holds MaxStates records
MaxStates == 2
\* keep_last_n is drawn from 0..MaxKeep
MaxKeep == 1
\* at most MaxFaults storage calls raise out of an operation in a run
MaxFaults == 1

(* --------------------------- configuration ----------------------------- *)
HISTORY_DIR == ".claude-history"

\* The paths of the model's project tree, in os.walk order.
WalkOrder == <<"a.txt", "src/b.py", "debug.log">>
Paths == {WalkOrder[i] : i \in 1..Len(WalkOrder)}

\* A relative path split at "/" and at the last ".": its directories, and
\* the stem and extension of its file name.
PathParts(p) ==
    CASE p = "a.txt"     -> [dirs |-> <<>>,      stem |-> "a",     ext |-> "txt"]
      [] p = "src/b.py"  -> [dirs |-> <<"src">>, stem |-> "b",     ext |-> "py"]
      [] p = "debug.log" -> [dirs |-> <<>>,      stem |-> "debug", ext |-> "log"]
      [] p = ".env"      -> [dirs |-> <<>>,      stem |-> "",      ext |-> "env"]
      [] OTHER           -> [dirs |-> <<>>,      stem |-> p,       ext |-> ""]

\* The three shapes of pattern in DEFAULT_IGNORE_PATTERNS:
\*   "d/*" (prefix), "*.e" (suffix), a literal path (exact).
DEFAULT_IGNORE_PATTERNS ==
    << [kind |-> "prefix", arg |-> ".git"],
       [kind |-> "prefix", arg |-> "node_modules"],
       [kind |-> "prefix", arg |-> "__pycache__"],
       [kind |-> "suffix", arg |-> "pyc"],
       [kind |-> "exact",  arg |-> ".env"],
       [kind |-> "exact",  arg |-> ".DS_Store"],
       [kind |-> "suffix", arg |-> "log"],
       [kind |-> "prefix", arg |-> HISTORY_DIR] >>

\* fnmatch.fnmatch(path, pattern): "*" matches any run of characters, "/"
\* included, so "d/*" is "starts with d/" and "*.e" is "ends with .e".
Fnmatch(p, pat) ==
    LET parts == PathParts(p) IN
    CASE pat.kind = "prefix" -> Len(parts.dirs) >= 1 /\ parts.dirs[1] = pat.arg
      [] pat.kind = "suffix" -> parts.ext = pat.arg
      [] pat.kind = "exact"  -> p = pat.arg

_should_ignore_file(p) ==
    \E i \in 1..Len(DEFAULT_IGNORE_PATTERNS) : Fnmatch(p, DEFAULT_IGNORE_PATTERNS[i])

\* os.walk skips a directory whose path contains HISTORY_DIR.
InHistoryDir(p) ==
    \E i \in 1..Len(PathParts(p).dirs) : PathParts(p).dirs[i] = HISTORY_DIR

(* ------------------------------ values --------------------------------- *)
Absent == "absent"
Contents == {"A", "B"}
\* The contents each file of the model takes: a.txt is created, modified and
\* deleted, src/b.py is created and deleted, debug.log (ignored) stays as it is.
FileContents(p) == IF p = "a.txt" THEN Contents ELSE {"A"}
Editable(p) == p # "debug.log"

\* A file of the history store that may not exist: <<>> or <<its content>>.
NoFile == <<>>
File(x) == <<x>>
Exists(f) == f # NoFile
Data(f) == f[1]

\* hashlib.md5(content).hexdigest(): distinct contents of the model have
\* distinct digests. NoKey: the path is no key of the hash-map.
MD5(c) == <<"md5", c>>
NoKey == <<>>

EmptyHashes == [p \in Paths |-> NoKey]
DefaultMetadata == [states |-> <<>>, current_state |-> 0, total_files_tracked |-> 0]

VARIABLES
    tree,            \* project tree: path -> content, or Absent
    initial_backup,  \* initial_backup.zip: NoFile or File(entry path -> content)
    file_hashes,     \* file_hashes.json: NoFile or File(path -> digest)
    metadata,        \* metadata.json: NoFile or File(the Metadata Document)
    state_files,     \* states/: file name -> NoFile or File(archive)
    result,          \* what the last operation returned
    initTree,        \* history: the tracked tree at the last initialize
    assigned,        \* history: state numbers assigned since the last initialize
    savedTree,       \* history: state number -> the tracked tree at its save
    calls,           \* the save calls in flight: caller -> its local variables
    faults           \* the storage calls that raised out of an operation so far

vars == <<tree, initial_backup, file_hashes, metadata, state_files, result,
          initTree, assigned, savedTree, calls, faults>>

\* The variables the sequential, fault-free engine leaves as they are.
extras == <<savedTree, calls, faults>>

\* state numbers a save can assign within the bound
StateNumbers == 1..MaxStates
\* state_number arguments of restore and show_state_details
StateArgs == 0..MaxStates
\* keep_last_n arguments of cleanup
KeepArgs == 0..MaxKeep

\* The callers whose saves may overlap on the project root.
Callers == {"c1", "c2"}

\* The local variables of save_current_changes before the call is made.
IdleCall == [pc |-> "idle", metadata |-> DefaultMetadata, changed_files |-> <<>>,
             state_number |-> 0, status |-> "none",
             \* history: the archive the call wrote, and whether that write
             \* is the latest to its file
             archive |-> NoFile, wrote_last |-> FALSE]

(* ------------------------------ helpers -------------------------------- *)
SeqToSet(s) == {s[i] : i \in 1..Len(s)}

_get_file_hash(t, p) == MD5(t[p])

\* Faulty variant of WalkedPaths: the walk forgets to ask the ignore filter.
WalkedUnfiltered == {p \in Paths : ~InHistoryDir(p)}

\* The paths the walk keeps when the file is there: outside the history
\* directory and not ignored (both depend on the path alone).
WalkedPaths == {p \in Paths : ~InHistoryDir(p) /\ ~_should_ignore_file(p)}

\* The tracked files of tree t, as the list os.walk yields.
_get_all_project_files(t) ==
    SelectSeq(WalkOrder, LAMBDA p : t[p] # Absent /\ p \in WalkedPaths)

_load_metadata == IF Exists(metadata) THEN Data(metadata) ELSE DefaultMetadata

_load_file_hashes == IF Exists(file_hashes) THEN Data(file_hashes) ELSE EmptyHashes

\* A zip written from the listed files of tree t.
ZipOf(t, files) == [p \in Paths |-> IF p \in SeqToSet(files) THEN t[p] ELSE Absent]

\* Faulty variant of ExtractAll: an entry whose file exists is not written over.
ExtractMissingOnly(t, zip) ==
    [p \in Paths |-> IF zip[p] # Absent /\ t[p] = Absent THEN zip[p] ELSE t[p]]

\* ZipFile.extractall over tree t: every entry is written, nothing is removed.
ExtractAll(t, zip) == [p \in Paths |-> IF zip[p] # Absent THEN zip[p] ELSE t[p]]

\* A returned dict: the operation and its argument, "status", and the
\* operation-specific fields the properties read.
Result(op, arg, status, num, changed) ==
    [op |-> op, arg |-> arg, status |-> status, state_number |-> num,
     changed_files |-> changed]

\* An error dict of restore: its "message" tells which step failed.
Failure(op, arg, message) ==
    [op |-> op, arg |-> arg, status |-> "error", state_number |-> 0,
     changed_files |-> <<>>, message |-> message]

\* f"state_{state_number:03d}.zip": one file name per state number.
StateFilename(state_number) == <<"state_", state_number, ".zip">>

(* -------------------------------- Init --------------------------------- *)
Init ==
    /\ tree \in {t \in [Paths -> Contents \cup {Absent}] :
                  \A p \in Paths : IF Editable(p)
                                    THEN t[p] \in FileContents(p) \cup {Absent}
                                    ELSE t[p] \in FileContents(p)}
    /\ initial_backup = NoFile
    /\ file_hashes = NoFile
    /\ metadata = NoFile
    /\ state_files = [f \in {StateFilename(n) : n \in StateNumbers} |-> NoFile]
    /\ result = Result("none", 0, "none", 0, <<>>)
    /\ initTree = NoFile
    /\ assigned = {}
    /\ savedTree = [n \in StateNumbers |-> NoFile]
    /\ calls = [c \in Callers |-> IdleCall]
    /\ faults = 0

\* The tracked files of the tree: present and not ignored by the Path Filter.
IsTracked(t, p) == t[p] # Absent /\ ~_should_ignore_file(p) /\ ~InHistoryDir(p)

\* The tracked part of a tree: its ignored files left out.
TrackedTree(t) == [p \in Paths |-> IF IsTracked(t, p) THEN t[p] ELSE Absent]

(* ------------------------- environment actions ------------------------- *)
\* The user writes (creates or modifies) a file.
WriteFile(p, c) ==
    /\ Editable(p)
    /\ c \in FileContents(p)
    /\ tree[p] # c
    /\ tree' = [tree EXCEPT ![p] = c]
    /\ result' = Result("edit", 0, "none", 0, <<>>)
    /\ UNCHANGED <<initial_backup, file_hashes, metadata, state_files, initTree, assigned>>

\* The user deletes a file.
DeleteFile(p) ==
    /\ Editable(p)
    /\ tree[p] # Absent
    /\ tree' = [tree EXCEPT ![p] = Absent]
    /\ result' = Result("edit", 0, "none", 0, <<>>)
    /\ UNCHANGED <<initial_backup, file_hashes, metadata, state_files, initTree, assigned>>

(* ------------------------------ operations ----------------------------- *)
\* Faulty variant of initialize_tracking: the metadata of an earlier history is
\* loaded and updated instead of being written afresh.
initialize_over_history ==
    LET project_files == _get_all_project_files(tree) IN
    /\ initial_backup' = File(ZipOf(tree, project_files))
    /\ file_hashes' = File([p \in Paths |->
                              IF p \in SeqToSet(project_files)
                              THEN _get_file_hash(tree, p) ELSE NoKey])
    /\ metadata' = File([_load_metadata EXCEPT
                           !.total_files_tracked = Len(project_files)])
    /\ result' = Result("initialize", 0, "success", Len(project_files), <<>>)
    /\ initTree' = File(ZipOf(tree, project_files))
    /\ assigned' = {}
    /\ UNCHANGED <<tree, state_files>>

initialize_tracking ==
    LET project_files == _get_all_project_files(tree) IN
    /\ initial_backup' = File(ZipOf(tree, project_files))
    /\ file_hashes' = File([p \in Paths |->
                              IF p \in SeqToSet(project_files)
                              THEN _get_file_hash(tree, p) ELSE NoKey])
    /\ metadata' = File([states |-> <<>>, current_state |-> 0,
                         total_files_tracked |-> Len(project_files)])
    /\ result' = Result("initialize", 0, "success", Len(project_files), <<>>)
    /\ initTree' = File(ZipOf(tree, project_files))
    /\ assigned' = {}
    /\ UNCHANGED <<tree, state_files>>

\* Faulty variant of ChangedFiles: the diff is taken against the last saved state
\* (its archive entry where it has one) instead of the fixed baseline.
ChangedSinceLastSave(t, initial_hashes) ==
    LET md == _load_metadata
        last == IF md.states = <<>> THEN NoFile
                ELSE state_files[md.states[Len(md.states)].filename]
        Known(p) == IF Exists(last) /\ Data(last)[p] # Absent
                    THEN MD5(Data(last)[p]) ELSE initial_hashes[p]
    IN  SelectSeq(_get_all_project_files(t), LAMBDA p :
            Known(p) = NoKey \/ Known(p) # _get_file_hash(t, p))

\* Faulty variant of ChangedFiles: a file that is new since the baseline is missed.
ModifiedFilesOnly(t, initial_hashes) ==
    SelectSeq(_get_all_project_files(t), LAMBDA p :
        initial_hashes[p] # NoKey /\ initial_hashes[p] # _get_file_hash(t, p))

\* A file is changed when it is new or its hash differs from the baseline's.
ChangedFiles(t, initial_hashes) ==
    SelectSeq(_get_all_project_files(t), LAMBDA p :
        initial_hashes[p] = NoKey \/ initial_hashes[p] # _get_file_hash(t, p))

\* Faulty variant of NextStateNumber: one more than the largest number listed.
NextAfterLargest(md) ==
    LET nums == {md.states[i].state_number : i \in 1..Len(md.states)}
    IN  IF nums = {} THEN 1 ELSE 1 + CHOOSE n \in nums : \A m \in nums : m <= n

NextStateNumber(md) == Len(md.states) + 1

\* Faulty variant of StateInfo: file_count counts every tracked file of the tree.
StateInfoCountingTracked(state_number, changed_files) ==
    [state_number |-> state_number, filename |-> StateFilename(state_number),
     files_changed |-> changed_files,
     file_count |-> Len(_get_all_project_files(tree))]

StateInfo(state_number, changed_files) ==
    [state_number |-> state_number, filename |-> StateFilename(state_number),
     files_changed |-> changed_files, file_count |-> Len(changed_files)]

\* Faulty variant of SaveNewState: the save also re-records the hashes of the files
\* it archived, moving the comparison baseline.
SaveNewStateRebaselined(md, changed_files) ==
    LET state_number == NextStateNumber(md) IN
    /\ Len(md.states) < MaxStates
    /\ state_files' = [state_files EXCEPT ![StateFilename(state_number)] =
                                            File(ZipOf(tree, changed_files))]
    /\ metadata' = File([md EXCEPT
          !.states = Append(@, StateInfo(state_number, changed_files)),
          !.current_state = state_number])
    /\ file_hashes' = File([p \in Paths |->
                              IF p \in SeqToSet(changed_files)
                              THEN _get_file_hash(tree, p)
                              ELSE _load_file_hashes[p]])
    /\ result' = Result("save", 0, "success", state_number, changed_files)
    /\ assigned' = assigned \cup {state_number}
    /\ UNCHANGED <<tree, initial_backup, initTree>>

\* Lines 207-240: the new state's archive and record are written.
SaveNewState(md, changed_files) ==
    LET state_number == NextStateNumber(md) IN
    /\ Len(md.states) < MaxStates
    /\ state_files' = [state_files EXCEPT ![StateFilename(state_number)] =
                                            File(ZipOf(tree, changed_files))]
    /\ metadata' = File([md EXCEPT
          !.states = Append(@, StateInfo(state_number, changed_files)),
          !.current_state = state_number])
    /\ result' = Result("save", 0, "success", state_number, changed_files)
    /\ assigned' = assigned \cup {state_number}
    /\ UNCHANGED <<tree, initial_backup, file_hashes, initTree>>

save_current_changes ==
    IF ~Exists(initial_backup)
    THEN /\ result' = Result("save", 0, "error", 0, <<>>)
         /\ UNCHANGED <<tree, initial_backup, file_hashes, metadata, state_files,
                        initTree, assigned>>
    ELSE LET changed_files == ChangedFiles(tree, _load_file_hashes)
         IN  IF changed_files = <<>>
             THEN /\ result' = Result("save", 0, "info", 0, <<>>)
                  /\ UNCHANGED <<tree, initial_backup, file_hashes, metadata,
                                 state_files, initTree, assigned>>
             ELSE SaveNewState(_load_metadata, changed_files)

\* Faulty variant of FindState: the comparison accepts any record numbered up to k.
FindStateUpTo(states, k) ==
    LET hits == SelectSeq(states, LAMBDA st : st.state_number <= k)
    IN  IF hits = <<>> THEN <<>> ELSE <<Head(hits)>>

\* The first record of the list numbered k, as <<record>>, or <<>>.
FindState(states, k) ==
    LET hits == SelectSeq(states, LAMBDA st : st.state_number = k)
    IN  IF hits = <<>> THEN <<>> ELSE <<Head(hits)>>

\* Faulty variant of UnlinkTracked: no file is removed before the extraction.
UnlinkNothing(t) == t

\* Faulty variant of UnlinkTracked: the loop stops after the first file.
UnlinkFirstOnly(t) ==
    LET files == _get_all_project_files(t)
    IN  [p \in Paths |-> IF files # <<>> /\ p = Head(files) THEN Absent ELSE t[p]]

\* The tree after every tracked file is unlinked.
UnlinkTracked(t) ==
    [p \in Paths |-> IF p \in SeqToSet(_get_all_project_files(t)) THEN Absent ELSE t[p]]

\* The tree _restore_to_initial leaves: tracked files removed, backup extracted.
RestoredInitialTree(t, backup) == ExtractAll(UnlinkTracked(t), backup)

\* The pointer restore_to_state persists after extracting state k.
RestoredPointer(md, k) == [md EXCEPT !.current_state = k]

_restore_to_initial(op, k) ==
    IF ~Exists(initial_backup)
    THEN /\ result' = Failure(op, k, "Initial backup not found")
         /\ UNCHANGED <<tree, initial_backup, file_hashes, metadata, state_files,
                        initTree, assigned>>
    ELSE /\ tree' = RestoredInitialTree(tree, Data(initial_backup))
         /\ metadata' = File([_load_metadata EXCEPT !.current_state = 0])
         /\ result' = Result(op, k, "success", 0, <<>>)
         /\ UNCHANGED <<initial_backup, file_hashes, state_files, initTree, assigned>>

restore_to_state(k) ==
    LET md == _load_metadata
        target_state == FindState(md.states, k)
    IN  IF k = 0
        THEN _restore_to_initial("restore", k)
        ELSE IF target_state = <<>>
        THEN /\ result' = Failure("restore", k, "State not found")
             /\ UNCHANGED <<tree, initial_backup, file_hashes, metadata, state_files,
                            initTree, assigned>>
        ELSE IF ~Exists(initial_backup)
        THEN _restore_to_initial("restore", k)
        ELSE LET state_path == target_state[1].filename
                 base == RestoredInitialTree(tree, Data(initial_backup))
             IN  IF ~Exists(state_files[state_path])
                 THEN \* the baseline phase is done, the state file is missing
                      /\ tree' = base
                      /\ metadata' = File([md EXCEPT !.current_state = 0])
                      /\ result' = Failure("restore", k, "State file not found")
                      /\ UNCHANGED <<initial_backup, file_hashes, state_files,
                                     initTree, assigned>>
                 ELSE /\ tree' = ExtractAll(base, Data(state_files[state_path]))
                      /\ metadata' = File(RestoredPointer(md, k))
                      /\ result' = Result("restore", k, "success",
                                          target_state[1].state_number, <<>>)
                      /\ UNCHANGED <<initial_backup, file_hashes, state_files,
                                     initTree, assigned>>

list_states ==
    LET md == _load_metadata IN
    /\ result' = IF md.states = <<>>
                 THEN Result("list_states", 0, "info", 0, <<>>)
                 ELSE Result("list_states", 0, "success", md.current_state, <<>>)
    /\ UNCHANGED <<tree, initial_backup, file_hashes, metadata, state_files,
                   initTree, assigned>>

show_state_details(k) ==
    LET md == _load_metadata
        target_state == FindState(md.states, k)
    IN  /\ result' = IF k = 0
                     THEN Result("show_state_details", k, "success", 0, <<>>)
                     ELSE IF target_state = <<>>
                     THEN Result("show_state_details", k, "error", 0, <<>>)
                     ELSE Result("show_state_details", k, "success",
                                 target_state[1].state_number,
                                 target_state[1].files_changed)
        /\ UNCHANGED <<tree, initial_backup, file_hashes, metadata, state_files,
                       initTree, assigned>>

\* get_current_status returns a dict that carries no "status" key.
get_current_status ==
    /\ result' = Result("status", 0, "none", _load_metadata.current_state, <<>>)
    /\ UNCHANGED <<tree, initial_backup, file_hashes, metadata, state_files,
                   initTree, assigned>>

\* Python's s[:e] and s[b:], a negative index counting from the end.
PyIndex(i, len) == IF i < 0 THEN (IF len + i < 0 THEN 0 ELSE len + i)
                   ELSE (IF i > len THEN len ELSE i)
PySliceTo(s, e) == SubSeq(s, 1, PyIndex(e, Len(s)))
PySliceFrom(s, b) == SubSeq(s, PyIndex(b, Len(s)) + 1, Len(s))

\* sorted(states, key=state_number): a stable sort.
RECURSIVE SortedStates(_)
SortedStates(s) ==
    IF s = <<>> THEN <<>>
    ELSE LET init == SortedStates(SubSeq(s, 1, Len(s) - 1))
             x == s[Len(s)]
             le == SelectSeq(init, LAMBDA y : y.state_number <= x.state_number)
             gt == SelectSeq(init, LAMBDA y : y.state_number > x.state_number)
         IN  le \o <<x>> \o gt

StatesToRemove(states, keep_last_n) == PySliceTo(SortedStates(states), 0 - keep_last_n)
StatesToKeep(states, keep_last_n) == PySliceFrom(SortedStates(states), 0 - keep_last_n)

\* Faulty variant of cleanup_states: a pointer whose record is pruned is reset to 0.
cleanup_resetting_pointer(keep_last_n) ==
    LET md == _load_metadata IN
    IF Len(md.states) <= keep_last_n
    THEN /\ result' = Result("cleanup", keep_last_n, "info", 0, <<>>)
         /\ UNCHANGED <<tree, initial_backup, file_hashes, metadata, state_files,
                        initTree, assigned>>
    ELSE LET states_to_remove == StatesToRemove(md.states, keep_last_n)
             states_to_keep == StatesToKeep(md.states, keep_last_n)
             unlinked == {states_to_remove[i].filename : i \in 1..Len(states_to_remove)}
             removed_count == Cardinality({f \in unlinked : Exists(state_files[f])})
             kept == {states_to_keep[i].state_number : i \in 1..Len(states_to_keep)}
         IN  /\ state_files' = [f \in DOMAIN state_files |->
                                  IF f \in unlinked THEN NoFile ELSE state_files[f]]
             /\ metadata' = File([md EXCEPT
                   !.states = states_to_keep,
                   !.current_state = IF @ \in kept THEN @ ELSE 0])
             /\ result' = Result("cleanup", keep_last_n, "success", removed_count, <<>>)
             /\ UNCHANGED <<tree, initial_backup, file_hashes, initTree, assigned>>

cleanup_states(keep_last_n) ==
    LET md == _load_metadata IN
    IF Len(md.states) <= keep_last_n
    THEN /\ result' = Result("cleanup", keep_last_n, "info", 0, <<>>)
         /\ UNCHANGED <<tree, initial_backup, file_hashes, metadata, state_files,
                        initTree, assigned>>
    ELSE LET states_to_remove == StatesToRemove(md.states, keep_last_n)
             states_to_keep == StatesToKeep(md.states, keep_last_n)
             unlinked == {states_to_remove[i].filename : i \in 1..Len(states_to_remove)}
             removed_count == Cardinality({f \in unlinked : Exists(state_files[f])})
         IN  /\ state_files' = [f \in DOMAIN state_files |->
                                  IF f \in unlinked THEN NoFile ELSE state_files[f]]
             /\ metadata' = File([md EXCEPT !.states = states_to_keep])
             /\ result' = Result("cleanup", keep_last_n, "success", removed_count, <<>>)
             /\ UNCHANGED <<tree, initial_backup, file_hashes, initTree, assigned>>

(* --------------------------- storage faults ---------------------------- *)
\* What a loop over list s has done when one of its steps raises.
ProperPrefixes(s) == {SubSeq(s, 1, n) : n \in 0..(Len(s) - 1)}

\* The entries of an archive, in the order they were written.
Entries(zip) == SelectSeq(WalkOrder, LAMBDA p : zip[p] # Absent)

\* An exception that leaves the operation: the caller gets no dict.
Raised(op, arg) == Result(op, arg, "raised", 0, <<>>)

\* initialize_tracking when a storage call raises: mkdir (lines 146-147),
\* the archive write (157-160, after some of the files), _save_file_hashes
\* (166) or _save_metadata (175). No try encloses them.
initialize_tracking_fails(at) ==
    LET project_files == _get_all_project_files(tree)
        hashes == [p \in Paths |-> IF p \in SeqToSet(project_files)
                                   THEN _get_file_hash(tree, p) ELSE NoKey]
    IN  /\ result' = Raised("initialize", 0)
        /\ \/ /\ at = "mkdir"
              /\ UNCHANGED <<initial_backup, file_hashes, initTree>>
           \/ /\ at = "backup"
              /\ \E done \in ProperPrefixes(project_files) :
                    /\ initial_backup' = File(ZipOf(tree, done))
                    /\ initTree' = File(ZipOf(tree, done))
              /\ UNCHANGED file_hashes
           \/ /\ at = "hashes"
              /\ initial_backup' = File(ZipOf(tree, project_files))
              /\ initTree' = File(ZipOf(tree, project_files))
              /\ UNCHANGED file_hashes
           \/ /\ at = "metadata"
              /\ initial_backup' = File(ZipOf(tree, project_files))
              /\ initTree' = File(ZipOf(tree, project_files))
              /\ file_hashes' = File(hashes)
        /\ UNCHANGED <<tree, metadata, state_files, assigned>>

\* save_current_changes when the archive write (lines 214-217, after some
\* of the files) or _save_metadata (232) raises. No try encloses them.
save_current_changes_fails(at) ==
    LET changed_files == ChangedFiles(tree, _load_file_hashes)
        md == _load_metadata
        state_path == StateFilename(NextStateNumber(md))
    IN  /\ Exists(initial_backup)
        /\ changed_files # <<>>
        /\ Len(md.states) < MaxStates
        /\ result' = Raised("save", 0)
        /\ \/ /\ at = "archive"
              /\ \E done \in ProperPrefixes(changed_files) :
                    state_files' = [state_files EXCEPT ![state_path] =
                                                         File(ZipOf(tree, done))]
           \/ /\ at = "metadata"
              /\ state_files' = [state_files EXCEPT ![state_path] =
                                                      File(ZipOf(tree, changed_files))]
        /\ UNCHANGED <<tree, initial_backup, file_hashes, metadata, initTree, assigned>>

\* cleanup_states when an unlink (line 400, after some of the files) or
\* _save_metadata (405) raises. No try encloses them.
cleanup_states_fails(keep_last_n) ==
    LET md == _load_metadata
        states_to_remove == StatesToRemove(md.states, keep_last_n)
    IN  /\ Len(md.states) > keep_last_n
        /\ result' = Raised("cleanup", keep_last_n)
        /\ \E done \in ProperPrefixes(states_to_remove) \cup {states_to_remove} :
              state_files' = [f \in DOMAIN state_files |->
                                IF f \in {done[i].filename : i \in 1..Len(done)}
                                THEN NoFile ELSE state_files[f]]
        /\ UNCHANGED <<tree, initial_backup, file_hashes, metadata, initTree, assigned>>

\* The operations whose _load_metadata is outside any try.
MetadataReaders == {"save", "restore", "list_states", "show_state_details",
                    "cleanup", "status"}

\* _load_metadata when metadata.json is there and open or json.load raises
\* (lines 117-119): the exception leaves the operation that called it.
load_metadata_fails(op) ==
    /\ op \in MetadataReaders
    /\ Exists(metadata)
    /\ op = "save" => /\ Exists(initial_backup)
                      /\ ChangedFiles(tree, _load_file_hashes) # <<>>
    /\ result' = Raised(op, 0)
    /\ UNCHANGED <<tree, initial_backup, file_hashes, metadata, state_files,
                   initTree, assigned>>

\* _restore_to_initial when a call inside its try raises (lines 324-343):
\* an unlink after some of the files, the extraction after some of the
\* entries, or the metadata update. The except returns an error dict.
restore_to_initial_fails(k) ==
    LET md == _load_metadata
        files == _get_all_project_files(tree)
        unlinked(done) == [p \in Paths |-> IF p \in SeqToSet(done) THEN Absent
                                                                   ELSE tree[p]]
        backup == Data(initial_backup)
    IN  /\ Exists(initial_backup)
        /\ k = 0 \/ FindState(md.states, k) # <<>>
        /\ \/ \E done \in ProperPrefixes(files) : tree' = unlinked(done)
           \/ \E done \in ProperPrefixes(Entries(backup)) :
                 tree' = ExtractAll(UnlinkTracked(tree), ZipOf(backup, done))
           \/ tree' = RestoredInitialTree(tree, backup)
        /\ result' = Failure("restore", k, "Failed to restore to initial state")
        /\ UNCHANGED <<initial_backup, file_hashes, metadata, state_files,
                       initTree, assigned>>

\* Faulty variant of restore_to_state_fails: the except branch writes the metadata
\* back as restore_to_state loaded it, pointer included.
restore_to_state_fails_rolling_back(k) ==
    LET md == _load_metadata
        target_state == FindState(md.states, k)
        base == RestoredInitialTree(tree, Data(initial_backup))
    IN  /\ k # 0
        /\ target_state # <<>>
        /\ Exists(initial_backup)
        /\ Exists(state_files[target_state[1].filename])
        /\ LET archive == Data(state_files[target_state[1].filename]) IN
           \E done \in ProperPrefixes(Entries(archive)) \cup {Entries(archive)} :
              tree' = ExtractAll(base, ZipOf(archive, done))
        /\ metadata' = File(md)
        /\ result' = Failure("restore", k, "Failed to restore state")
        /\ UNCHANGED <<initial_backup, file_hashes, state_files, initTree, assigned>>

\* restore_to_state when a call inside its try raises (lines 296-316), the
\* baseline phase being done: the extraction after some of the entries, or
\* the metadata update. The except returns an error dict.
restore_to_state_fails(k) ==
    LET md == _load_metadata
        target_state == FindState(md.states, k)
        base == RestoredInitialTree(tree, Data(initial_backup))
    IN  /\ k # 0
        /\ target_state # <<>>
        /\ Exists(initial_backup)
        /\ Exists(state_files[target_state[1].filename])
        /\ LET archive == Data(state_files[target_state[1].filename]) IN
           \E done \in ProperPrefixes(Entries(archive)) \cup {Entries(archive)} :
              tree' = ExtractAll(base, ZipOf(archive, done))
        /\ metadata' = File([md EXCEPT !.current_state = 0])
        /\ result' = Failure("restore", k, "Failed to restore state")
        /\ UNCHANGED <<initial_backup, file_hashes, state_files, initTree, assigned>>

\* One call at a time, nothing recorded about the saves.
Next ==
    \/ (\E p \in Paths, c \in Contents : WriteFile(p, c)) /\ UNCHANGED extras
    \/ (\E p \in Paths : DeleteFile(p)) /\ UNCHANGED extras
    \/ initialize_tracking /\ UNCHANGED extras
    \/ save_current_changes /\ UNCHANGED extras
    \/ (\E k \in StateArgs : restore_to_state(k)) /\ UNCHANGED extras
    \/ (\E n \in KeepArgs : cleanup_states(n)) /\ UNCHANGED extras

\* The operations that read the history store and change nothing.
Queries ==
    \/ list_states /\ UNCHANGED extras
    \/ (\E k \in StateArgs : show_state_details(k)) /\ UNCHANGED extras
    \/ get_current_status /\ UNCHANGED extras

NextAll == Next \/ Queries

\* One more storage call raises out of its operation.
OneMoreFault ==
    /\ faults < MaxFaults
    /\ faults' = faults + 1
    /\ UNCHANGED <<savedTree, calls>>

\* The storage faults that raise out of an operation.
RaisingFaults ==
    \/ (\E at \in {"mkdir", "backup", "hashes", "metadata"} :
          initialize_tracking_fails(at)) /\ OneMoreFault
    \/ (\E at \in {"archive", "metadata"} : save_current_changes_fails(at))
          /\ OneMoreFault
    \/ (\E n \in KeepArgs : cleanup_states_fails(n)) /\ OneMoreFault
    \/ (\E op \in MetadataReaders : load_metadata_fails(op)) /\ OneMoreFault

\* The storage faults restore catches and reports.
RestoreFaults ==
    \/ (\E k \in StateArgs : restore_to_initial_fails(k)) /\ UNCHANGED extras
    \/ (\E k \in StateArgs : restore_to_state_fails(k)) /\ UNCHANGED extras

Faults == RaisingFaults \/ RestoreFaults

NextFaults == Next \/ Faults

\* The edits and the operations that write: every state of the project tree
\* and the history store the program reaches.
Spec == Init /\ [][Next]_vars

\* The same with the read-only operations' results.
SpecAll == Init /\ [][NextAll]_vars

\* The sequential engine with the faults restore catches.
NextRestoreFaults == Next \/ RestoreFaults

SpecRestoreFaults == Init /\ [][NextRestoreFaults]_vars

\* The engine on a store whose calls can fail.
SpecFaults == Init /\ [][NextFaults]_vars
\* No state number has a recorded tree.
NoSavedTrees == [n \in StateNumbers |-> NoFile]

\* The sequential engine with the tracked tree of each save kept beside the
\* number the save returned; initialize and cleanup forget them.
NextFidelity ==
    \/ (\E p \in Paths, c \in Contents : WriteFile(p, c)) /\ UNCHANGED extras
    \/ (\E p \in Paths : DeleteFile(p)) /\ UNCHANGED extras
    \/ /\ initialize_tracking
       /\ savedTree' = NoSavedTrees
       /\ UNCHANGED <<calls, faults>>
    \/ /\ save_current_changes
       /\ savedTree' = IF result'.status = "success"
                       THEN [savedTree EXCEPT ![result'.state_number] =
                                                File(TrackedTree(tree))]
                       ELSE savedTree
       /\ UNCHANGED <<calls, faults>>
    \/ (\E k \in StateArgs : restore_to_state(k)) /\ UNCHANGED extras
    \/ /\ \E n \in KeepArgs : cleanup_states(n)
       /\ savedTree' = NoSavedTrees
       /\ UNCHANGED <<calls, faults>>

SpecFidelity == Init /\ [][NextFidelity]_vars

(* --------------------------- overlapping saves ------------------------- *)
\* The files zipf.write has added when it raises on the first listed file
\* that is no longer there.
ArchivedBeforeRaise(t, files) ==
    LET n == CHOOSE i \in 1..Len(files) :
                 /\ t[files[i]] = Absent
                 /\ \A j \in 1..(i - 1) : t[files[j]] # Absent
    IN  SubSeq(files, 1, n - 1)

\* Lines 186-211 for caller c: the initialization check, the scan of the
\* tree against the baseline hashes, and the read of the metadata.
save_load(c) ==
    LET changed_files == ChangedFiles(tree, _load_file_hashes)
        md == _load_metadata
        Return(status) == [IdleCall EXCEPT !.pc = "returned", !.status = status]
    IN  /\ calls[c].pc = "idle"
        /\ IF ~Exists(initial_backup)
           THEN calls' = [calls EXCEPT ![c] = Return("error")]
           ELSE IF changed_files = <<>>
           THEN calls' = [calls EXCEPT ![c] = Return("info")]
           ELSE /\ Len(md.states) < MaxStates
                /\ calls' = [calls EXCEPT ![c] =
                      [IdleCall EXCEPT !.pc = "loaded", !.metadata = md,
                                       !.changed_files = changed_files,
                                       !.state_number = NextStateNumber(md)]]
        /\ UNCHANGED <<tree, initial_backup, file_hashes, metadata, state_files,
                       result, initTree, assigned, savedTree, faults>>

\* Lines 213-217 for caller c: the archive is opened for writing under the
\* name of the call's state number and the changed files are added as they
\* are in the tree now; a file deleted since the scan makes zipf.write raise.
save_write_archive(c) ==
    LET call == calls[c]
        state_path == StateFilename(call.state_number)
        files == SeqToSet(call.changed_files)
        written == IF \E p \in files : tree[p] = Absent
                   THEN ArchivedBeforeRaise(tree, call.changed_files)
                   ELSE call.changed_files
        archived == File(ZipOf(tree, written))
    IN  /\ call.pc = "loaded"
        /\ state_files' = [state_files EXCEPT ![state_path] = archived]
        /\ calls' = [d \in Callers |->
              IF d # c
              THEN IF calls[d].state_number = call.state_number
                   THEN [calls[d] EXCEPT !.wrote_last = FALSE] ELSE calls[d]
              ELSE IF \E p \in files : tree[p] = Absent
              THEN [call EXCEPT !.pc = "returned", !.status = "raised",
                                !.archive = archived, !.wrote_last = TRUE]
              ELSE [call EXCEPT !.pc = "archived",
                                !.archive = archived, !.wrote_last = TRUE]]
        /\ UNCHANGED <<tree, initial_backup, file_hashes, metadata, result,
                       initTree, assigned, savedTree, faults>>

\* Faulty variant of save_write_metadata: the record is appended to the metadata
\* as it is on disk at the write.
save_append_to_current(c) ==
    LET call == calls[c] IN
    /\ call.pc = "archived"
    /\ metadata' = File([_load_metadata EXCEPT
          !.states = Append(@, StateInfo(call.state_number, call.changed_files)),
          !.current_state = call.state_number])
    /\ calls' = [calls EXCEPT ![c] =
                   [call EXCEPT !.pc = "returned", !.status = "success"]]
    /\ assigned' = assigned \cup {call.state_number}
    /\ UNCHANGED <<tree, initial_backup, file_hashes, state_files, result,
                   initTree, savedTree, faults>>

\* Lines 219-240 for caller c: the record is appended to the metadata the
\* call loaded, the pointer set, the document written, success returned.
save_write_metadata(c) ==
    LET call == calls[c] IN
    /\ call.pc = "archived"
    /\ metadata' = File([call.metadata EXCEPT
          !.states = Append(@, StateInfo(call.state_number, call.changed_files)),
          !.current_state = call.state_number])
    /\ calls' = [calls EXCEPT ![c] =
                   [call EXCEPT !.pc = "returned", !.status = "success"]]
    /\ assigned' = assigned \cup {call.state_number}
    /\ UNCHANGED <<tree, initial_backup, file_hashes, state_files, result,
                   initTree, savedTree, faults>>

\* Two callers' saves step by step, one save each, the user's edits in
\* between; an initialize is taken when no save is under way and lets both
\* callers save again.
NextRace ==
    \/ (\E p \in Paths, c \in Contents : WriteFile(p, c)) /\ UNCHANGED extras
    \/ (\E p \in Paths : DeleteFile(p)) /\ UNCHANGED extras
    \/ /\ \A c \in Callers : calls[c].pc \in {"idle", "returned"}
       /\ initialize_tracking
       /\ calls' = [c \in Callers |-> IdleCall]
       /\ UNCHANGED <<savedTree, faults>>
    \/ \E c \in Callers : save_load(c)
    \/ \E c \in Callers : save_write_archive(c)
    \/ \E c \in Callers : save_write_metadata(c)

SpecRace == Init /\ [][NextRace]_vars
(* ------------------------------ properties ---------------------------- *)
\* The pointer a metadata file m holds (0 when there is no file).
PointerOf(m) == IF Exists(m) THEN Data(m).current_state ELSE 0
Pointer == PointerOf(metadata)
States == _load_metadata.states
RecordedNumbers == {States[i].state_number : i \in 1..Len(States)}

\* C1: current_state_pointer is 0 or the state_number of a State Record that
\* is still in the state list, after any sequence of operations.
PointerNeverDangles == Pointer = 0 \/ Pointer \in RecordedNumbers

\* C2: between one initialize and the next, a save never assigns a
\* state_number that an earlier save assigned (pruned or not).
StateNumbersNeverReused ==
    [][(save_current_changes /\ result'.status = "success")
         => result'.state_number \notin assigned]_vars

\* A save in a state the previous operation, a save that created a state, left
\* (no edit in between: an edit resets result).
SecondSave == result.op = "save" /\ result.status = "success" /\ save_current_changes

\* C3 (as stated): a second save made with no further edits returns an info
\* no-op and creates no State Record.
SecondSaveIsNoOp ==
    [][SecondSave => /\ result'.status = "info"
                     /\ metadata' = metadata
                     /\ state_files' = state_files]_vars

\* C3 (amended): a second save made with no further edits is not a no-op: it
\* diffs against the fixed baseline again, so it returns success with the same
\* changed files and appends another State Record.
SecondSaveRepeats ==
    [][SecondSave => /\ result'.status = "success"
                     /\ result'.changed_files = result.changed_files
                     /\ Len(Data(metadata').states) = Len(States) + 1
                     /\ Data(metadata').states[Len(States) + 1].files_changed
                          = result.changed_files
                     /\ tree' = tree]_vars

\* Two saves in a row recorded states 1 and 2 with the same files.
SecondSaveWitness ==
    /\ result.op = "save" /\ result.status = "success" /\ result.state_number = 2
    /\ Len(States) = 2
    /\ States[1].state_number = 1 /\ States[2].state_number = 2
    /\ States[1].files_changed = States[2].files_changed
    /\ state_files[StateFilename(1)] = state_files[StateFilename(2)]

\* The tracked files that are no key of the baseline hash-map or whose hash
\* differs from the baseline's.
DiffersFromBaseline ==
    {p \in Paths : /\ IsTracked(tree, p)
                   /\ \/ Data(file_hashes)[p] = NoKey
                      \/ Data(file_hashes)[p] # MD5(tree[p])}

\* C4: on an initialized project a save reports, and records, exactly the
\* tracked files that are absent from the baseline hash-map or differ from
\* it, and creates a State Record if and only if that set is not empty.
SaveReportsExactlyChanged ==
    [][(save_current_changes /\ Exists(initial_backup)) =>
         /\ SeqToSet(result'.changed_files) = DiffersFromBaseline
         /\ DiffersFromBaseline = {} =>
              /\ result'.status = "info"
              /\ metadata' = metadata /\ state_files' = state_files
         /\ DiffersFromBaseline # {} =>
              /\ result'.status = "success"
              /\ Len(Data(metadata').states) = Len(States) + 1
              /\ SeqToSet(Data(metadata').states[Len(States) + 1].files_changed)
                   = DiffersFromBaseline]_vars

\* A save reported a modified file (a.txt) and a new one (src/b.py).
SaveWitness ==
    /\ result.op = "save" /\ result.status = "success"
    /\ result.changed_files = <<"a.txt", "src/b.py">>
    /\ Data(initTree)["a.txt"] \notin {Absent, tree["a.txt"]}
    /\ Data(initTree)["src/b.py"] = Absent

\* C5: a successful restore(0) leaves the tracked files equal, in path set and
\* contents, to the tree captured at the most recent initialize, and the
\* pointer at 0; right after initialize it leaves the whole tree as it is.
RestoreZeroReproducesBaseline ==
    [][(restore_to_state(0) /\ result'.status = "success") =>
         /\ TrackedTree(tree') = Data(initTree)
         /\ PointerOf(metadata') = 0
         /\ result.op = "initialize" => tree' = tree]_vars

\* restore(0) succeeded on a history that holds saved states.
RestoreZeroWitness ==
    /\ result.op = "restore" /\ result.arg = 0 /\ result.status = "success"
    /\ States # <<>>
    /\ \E p \in Paths : Data(state_files[States[1].filename])[p]
                          \notin {Absent, Data(initTree)[p]}

\* C6: a successful restore(k), k # 0, leaves every path of archive k with
\* its archived content, every other baseline file with its baseline
\* content, no other tracked file, and the pointer at k.
RestoreStateOverlaysBaseline ==
    [][\A k \in StateArgs \ {0} :
         (restore_to_state(k) /\ result'.status = "success") =>
           LET zip == Data(state_files[StateFilename(k)]) IN
           /\ \A p \in Paths :
                ~_should_ignore_file(p) =>
                  tree'[p] = IF zip[p] # Absent THEN zip[p] ELSE Data(initTree)[p]
           /\ PointerOf(metadata') = k]_vars

\* restore(k) succeeded where archive k replaces a baseline file (a.txt) and
\* leaves another (src/b.py) to the baseline.
RestoreStateWitness ==
    /\ result.op = "restore" /\ result.arg # 0 /\ result.status = "success"
    /\ LET zip == Data(state_files[StateFilename(result.arg)]) IN
       /\ Data(initTree)["a.txt"] # Absent
       /\ zip["a.txt"] \notin {Absent, Data(initTree)["a.txt"]}
       /\ zip["src/b.py"] = Absent
       /\ Data(initTree)["src/b.py"] # Absent
       /\ tree["a.txt"] = zip["a.txt"]
    /\ Pointer = result.arg

\* C7: for a valid k (0 or a recorded state number), restore(k) applied right
\* after restore(k) leaves the project tree and the pointer as the first left
\* them.
RestoreIdempotent ==
    [][\A k \in StateArgs :
         (/\ result.op = "restore" /\ result.arg = k
          /\ k = 0 \/ k \in RecordedNumbers
          /\ restore_to_state(k))
         => /\ tree' = tree
            /\ PointerOf(metadata') = Pointer
            /\ result'.status = result.status]_vars

\* restore(k) succeeded and left a tree that differs from the baseline: the
\* state a second restore(k) starts from.
RestoreTwiceWitness ==
    /\ result.op = "restore" /\ result.arg # 0 /\ result.status = "success"
    /\ Pointer = result.arg
    /\ TrackedTree(tree) # Data(initTree)

\* C8: after any sequence of saves, restores and cleanups the baseline archive
\* and the baseline hash-map are what the most recent initialize wrote.
BaselineImmutable ==
    IF Exists(initTree)
    THEN /\ initial_backup = initTree
         /\ file_hashes = File([p \in Paths |->
                                  IF Data(initTree)[p] # Absent
                                  THEN MD5(Data(initTree)[p]) ELSE NoKey])
    ELSE initial_backup = NoFile /\ file_hashes = NoFile

\* Saves, a cleanup and a restore have run since the initialize, and the tree
\* has been edited away from the baseline.
BaselineWitness ==
    /\ Exists(initial_backup)
    /\ States # <<>> /\ States[1].state_number = 2
    /\ Pointer = 0
    /\ TrackedTree(tree) # Data(initTree)

\* C9: cleanup(keep_last_n), keep_last_n >= 0, changes nothing and returns
\* info when at most keep_last_n records exist; otherwise it leaves exactly
\* the keep_last_n records with the highest state_number, unchanged, and the
\* archive files of the removed records are deleted.
CleanupKeepsLastN ==
    [][\A n \in KeepArgs :
         cleanup_states(n) =>
           LET sorted == SortedStates(States)
               len == Len(States)
           IN  IF len <= n
               THEN /\ result'.status = "info"
                    /\ metadata' = metadata /\ state_files' = state_files
               ELSE /\ Data(metadata').states = SubSeq(sorted, len - n + 1, len)
                    /\ \A i \in 1..(len - n) :
                         state_files'[sorted[i].filename] = NoFile]_vars

\* C10: while no Baseline Snapshot exists, save, restore, list_states,
\* show_state_details and cleanup return an error result and leave the
\* History Store as it is (empty).
UninitializedFailsCleanly ==
    (/\ ~Exists(initial_backup)
     /\ result.op \in {"save", "restore", "list_states", "show_state_details",
                       "cleanup"})
    => /\ result.status = "error"
       /\ metadata = NoFile /\ file_hashes = NoFile
       /\ \A f \in DOMAIN state_files : state_files[f] = NoFile

\* C11: restore_to_state(k) with k # 0 and no record numbered k returns an
\* error and leaves the tree, the pointer, the state list and every archive
\* as they were.
RestoreUnknownStateTouchesNothing ==
    [][\A k \in StateArgs \ {0} :
          (k \notin RecordedNumbers /\ restore_to_state(k))
            => /\ result'.status = "error"
               /\ UNCHANGED <<tree, metadata, state_files, initial_backup,
                              file_hashes>>]_vars

\* A restore of a pruned number was refused while the tree is off the
\* baseline and a record is still listed.
RestoreUnknownWitness ==
    /\ result.op = "restore" /\ result.status = "error"
    /\ result.arg # 0 /\ result.arg \notin RecordedNumbers
    /\ result.arg \in assigned
    /\ States # <<>>
    /\ Exists(initial_backup) /\ TrackedTree(tree) # Data(initial_backup)

\* The paths the claims call ignored: matched by the filter or under the
\* history directory.
Ignored(p) == _should_ignore_file(p) \/ InHistoryDir(p)

\* No key of the hash map, no entry of the baseline archive or of a state
\* archive, no reported or recorded changed file is path p.
AbsentFromStore(p) ==
    /\ _load_file_hashes[p] = NoKey
    /\ Exists(initial_backup) => Data(initial_backup)[p] = Absent
    /\ \A f \in DOMAIN state_files :
         Exists(state_files[f]) => Data(state_files[f])[p] = Absent
    /\ p \notin SeqToSet(result.changed_files)
    /\ \A i \in 1..Len(States) : p \notin SeqToSet(States[i].files_changed)

\* C13: an ignored file is never a key of the baseline hash map, never an
\* entry of the baseline archive or of a state archive, never among a save's
\* changed files, and no restore deletes or overwrites it.
IgnoredFilesNeverTracked ==
    [][\A p \in Paths : Ignored(p) =>
          /\ AbsentFromStore(p)'
          /\ result'.op = "restore" => tree'[p] = tree[p]]_vars

\* An ignored file is in the tree after a successful restore of a saved
\* state whose archive and baseline hold the other files.
IgnoredWitness ==
    /\ result.op = "restore" /\ result.status = "success" /\ result.arg # 0
    /\ \E p \in Paths : Ignored(p) /\ tree[p] # Absent
    /\ \E p \in Paths : Data(initial_backup)[p] # Absent
    /\ \E f \in DOMAIN state_files : Exists(state_files[f])

\* C14: right after a successful initialize, whatever history there was, the
\* state list is empty, the pointer is 0, the hash map's keys are the
\* tracked files (each with the hash of its content), the baseline archive
\* holds exactly those files with their current contents, and
\* total_files_tracked is their number.
InitializeStartsFresh ==
    (result.op = "initialize" /\ result.status = "success")
      => /\ States = <<>>
         /\ Pointer = 0
         /\ \A p \in Paths :
              _load_file_hashes[p] = IF IsTracked(tree, p)
                                     THEN _get_file_hash(tree, p) ELSE NoKey
         /\ Exists(initial_backup) /\ Data(initial_backup) = TrackedTree(tree)
         /\ _load_metadata.total_files_tracked =
              Cardinality({p \in Paths : IsTracked(tree, p)})

\* An initialize succeeded over an earlier history: an archive of a state
\* saved before it is still on disk, and files are tracked.
InitializeWitness ==
    /\ result.op = "initialize" /\ result.status = "success"
    /\ \E f \in DOMAIN state_files : Exists(state_files[f])
    /\ \E p \in Paths : IsTracked(tree, p)

\* C15: for every State Record in the list, the archive its filename names
\* exists and holds exactly the paths of the record's changed-file list.
StoreConsistent ==
    \A i \in 1..Len(States) :
        LET archive == state_files[States[i].filename] IN
        /\ Exists(archive)
        /\ {p \in Paths : Data(archive)[p] # Absent}
             = SeqToSet(States[i].files_changed)

\* C16: a save that creates a record numbers it (records listed before) + 1,
\* appends it at the end of the list and sets the pointer to it, pruned
\* list or not; saves onto a list numbered 1..N give 1..N+1.
SaveNumbersByCount ==
    [][(save_current_changes /\ result'.status = "success")
         => LET after == Data(metadata').states
                new == after[Len(after)]
            IN  /\ result'.state_number = Len(States) + 1
                /\ Len(after) = Len(States) + 1
                /\ SubSeq(after, 1, Len(States)) = States
                /\ new.state_number = result'.state_number
                /\ new.files_changed = result'.changed_files
                /\ PointerOf(metadata') = result'.state_number
                /\ (\A i \in 1..Len(States) : States[i].state_number = i)
                     => \A i \in 1..Len(after) : after[i].state_number = i]_vars

\* A save onto a pruned list: the new record repeats the number of the
\* record before it.
SaveAfterPruneWitness ==
    /\ result.op = "save" /\ result.status = "success"
    /\ Len(States) = 2
    /\ States[1].state_number = 2 /\ States[2].state_number = 2
    /\ Pointer = 2

\* C17: cleanup never changes current_state, whatever keep_last_n is and
\* whether or not the record the pointer names was pruned.
CleanupKeepsPointer ==
    [][\A n \in KeepArgs : cleanup_states(n) => PointerOf(metadata') = Pointer]_vars

\* A cleanup pruned the record the pointer names: the pointer still holds
\* that number.
CleanupPrunedPointerWitness ==
    /\ result.op = "cleanup" /\ result.status = "success"
    /\ Pointer # 0 /\ Pointer \notin RecordedNumbers
    /\ States # <<>>

\* C18: in every State Record file_count is the length of files_changed,
\* and both are at least 1.
FileCountMatches ==
    \A i \in 1..Len(States) :
        /\ States[i].file_count = Len(States[i].files_changed)
        /\ States[i].file_count >= 1

\* A record of two changed files is listed while the tree tracks more or
\* fewer files than that.
FileCountWitness ==
    \E i \in 1..Len(States) :
        /\ States[i].file_count = 2
        /\ Len(_get_all_project_files(tree)) # 2

\* C12: no exception leaves an operation: whatever the input and whatever
\* storage call fails inside it, the operation returns a dict.
NoExceptionEscapes == result.status # "raised"

\* C20: when a save returned state k with the tracked tree T, a later
\* successful restore_to_state(k), no initialize or cleanup in between,
\* leaves the tracked tree equal to T, paths and contents, also when files
\* of the baseline had been deleted before that save.
SnapshotFidelity ==
    (/\ result.op = "restore" /\ result.status = "success"
     /\ result.arg # 0 /\ Exists(savedTree[result.arg]))
      => TrackedTree(tree) = Data(savedTree[result.arg])

\* C19: two overlapping saves race on the metadata, the last writer wins:
\* whenever both have returned success with the same state_number, the list
\* holds one record of that number, which is one of the two, and the
\* archive of that number holds the files of the call that wrote it last.
RaceLastWriterWins ==
    \A c, d \in Callers :
        (/\ c # d
         /\ calls[c].pc = "returned" /\ calls[c].status = "success"
         /\ calls[d].pc = "returned" /\ calls[d].status = "success"
         /\ calls[c].state_number = calls[d].state_number)
          => LET n == calls[c].state_number
                 listed == {i \in 1..Len(States) : States[i].state_number = n}
             IN  /\ Cardinality(listed) = 1
                 /\ \A i \in listed :
                       States[i] \in {StateInfo(n, calls[c].changed_files),
                                      StateInfo(n, calls[d].changed_files)}
                 /\ calls[c].wrote_last # calls[d].wrote_last
                 /\ state_files[StateFilename(n)] =
                       IF calls[c].wrote_last THEN calls[c].archive
                                              ELSE calls[d].archive

\* Both saves returned success with the same number, their changed files
\* differ, the archive is the later writer's and the one record listed is
\* the other call's.
RaceWitness ==
    \E c, d \in Callers :
        /\ c # d
        /\ calls[c].pc = "returned" /\ calls[c].status = "success"
        /\ calls[d].pc = "returned" /\ calls[d].status = "success"
        /\ calls[c].state_number = calls[d].state_number
        /\ calls[c].changed_files # calls[d].changed_files
        /\ calls[d].wrote_last
        /\ state_files[StateFilename(calls[d].state_number)] = calls[d].archive
        /\ calls[c].archive # calls[d].archive
        /\ Len(States) = 1
        /\ States[1].files_changed = calls[c].changed_files

====
